---- MODULE Spec2Model ----
(***************************************************************************)
(* Conversation-state and request-sequencing logic of the interview bot:   *)
(* the handlers of src/app.py acting on context.user_data (one dictionary  *)
(* per user) and on the module-level conversation_history of               *)
(* src/src/agents.py.                                                      *)
(*                                                                         *)
(* Every handler is a coroutine.  A handler runs without interruption      *)
(* between two awaits; each await of an external call (transport,          *)
(* transcription, chat model) either returns or raises.  A task holds the  *)
(* position (pc) and the local variables of one running handler.           *)
(*                                                                         *)
(* Strings are sequences of tokens, so that concatenation is \o.           *)
(***************************************************************************)
EXTENDS Integers, Sequences, FiniteSets, TLC

(* ------------------------------ bounds -------------------------------- *)
\* number of updates dispatched in one behaviour
MaxEvents == 3
\* number of handlers that may be in flight at once in ConcSpec
MaxTasks == 2
\* number of updates dispatched in one behaviour of ConcSpec
MaxConcEvents == 2
\* length of the generated unknown command tokens
MaxCommandLen == 3

Users == {"u1", "u2"}
TaskIds == 1..MaxTasks

\* message texts, captions, voice-query transcripts, interview transcripts,
\* model replies (the empty string is a possible output_text)
Texts == {<<"a">>, <<"b">>}
Captions == {<<>>, <<"c">>}
VoiceTexts == {<<"v">>}
Transcripts == {<<"T1">>, <<"T2">>}
Replies == {<<"r">>, <<>>}
Mimes == {"audio/ogg", "audio/flac"}
MsgIds == {1}

\* unknown command tokens: every string of at most MaxCommandLen of these characters,
\* and three longer ones; a command may be followed by arguments
CommandChars == {"s", "t", "a", "e", "n", "w", "h", "l", "p"}
ExampleCommands ==
    { <<"h", "l", "e", "p">>, <<"x", "y", "z", "1", "2", "3">>,
      <<"n", "e", "w", "h", "e", "l", "p">> }
CommandArgs ==
    { <<>>, <<" ", "x">>, <<"\n", "x">>, <<"\t", "x", " ">>, <<"\n">>,
      <<"U+00A0", "x">>, <<"U+000B", "x", "U+3000">> }

(* ------------------------- agents.py: dialogue ------------------------ *)
SYSTEM_MESSAGE == <<"You are a US embassy expert interview officer assistant. ...">>
CONTEXT_PREFIX == <<"Interview transcript as the context: \n">>
GREETING == <<"Ask anything about interview...">>
QUERY_PREFIX == <<"Here is user query: \n">>
NEWLINE == <<"\n">>

Turn(role, content) == [role |-> role, content |-> content]

\* prepare_conversation, once transcribe_audio has returned `transcript`
InitialHistory(transcript) ==
    << Turn("system", SYSTEM_MESSAGE),
       Turn("user", CONTEXT_PREFIX \o transcript),
       Turn("assistant", GREETING) >>

\* chat: the append made before the model is called
chat_append_user(history, user_query) ==
    Append(history, Turn("user", QUERY_PREFIX \o user_query))

\* mutant: the reply is returned but not appended to the history
chat_append_assistant_dropped(history, output_text) == history

\* chat: the append made after the model has answered
chat_append_assistant(history, output_text) ==
    Append(history, Turn("assistant", output_text))

(* ------------------------ app.py: dictionaries ------------------------ *)
EmptyDict == [k \in {} |-> TRUE]
Has(d, k) == k \in DOMAIN d
Put(d, k, v) == [x \in (DOMAIN d) \cup {k} |-> IF x = k THEN v ELSE d[x]]
Pop(d, k) == [x \in (DOMAIN d) \ {k} |-> d[x]]

\* truthiness of a string
Truthy(s) == Len(s) > 0
\* context.user_data.get("chatting")
Chatting(d) == Has(d, "chatting") /\ d["chatting"]
\* context.user_data.get("initial_query"), None rendered as the empty string
GetInitialQuery(d) == IF Has(d, "initial_query") THEN d["initial_query"] ELSE <<>>

extension_map ==
    [m \in {"audio/mpeg", "audio/ogg", "audio/mp4", "audio/x-m4a", "audio/wav"} |->
        CASE m = "audio/mpeg" -> ".mp3"
          [] m = "audio/ogg" -> ".ogg"
          [] m = "audio/mp4" -> ".m4a"
          [] m = "audio/x-m4a" -> ".m4a"
          [] m = "audio/wav" -> ".wav"]
\* extension_map.get(mime_type), None rendered as ""
Extension(mime) == IF mime \in DOMAIN extension_map THEN extension_map[mime] ELSE ""

\* the "Additional queries before audio" concatenation
AppendQuery(initial_query, user_query) == initial_query \o NEWLINE \o user_query

\* pending_query = caption if caption else user_data.get("initial_query")
PendingQuery(caption, d) == IF Truthy(caption) THEN caption ELSE GetInitialQuery(d)

\* "Enable chat mode"
EnableChatMode(d) == Pop(Put(d, "chatting", TRUE), "initial_query")

(* ------------------------------- state -------------------------------- *)
VARIABLES
    user_data,              \* context.user_data of each user
    conversation_history,   \* agents.conversation_history (one for the process)
    tasks,                  \* the handlers in flight
    events,                 \* number of updates dispatched so far
    queued,                 \* per user: the texts queued by handle_text since the buffer was empty
    transcribed             \* per user: a transcription succeeded since creation or last /new

vars == <<user_data, conversation_history, tasks, events, queued, transcribed>>

\* nothing queued
NoQueue == [valid |-> TRUE, texts |-> <<>>]

IdleTask ==
    [h |-> "idle", u |-> "u1", pc |-> "idle",
     text |-> <<>>, caption |-> <<>>, mime |-> "",
     file_path |-> FALSE, on_disk |-> FALSE, processed_successfully |-> FALSE,
     pending_query |-> <<>>, response |-> <<>>, transcript |-> <<>>,
     possible_matches |-> <<>>, suggestion_text |-> <<>>,
     \* bookkeeping for the properties
     \* query: argument of the last chat call; nchat, nstt: calls of chat and of
     \* the transcription made so far; chat_result, stt_result: how the last one ended;
     \* ud0, hist0, q0: user_data[u], conversation_history, queued[u] at entry;
     \* chat0: conversation_history when chat was entered; chosen: pending_query was
     \* read; enabled: "Enable chat mode" was reached; escaped: an exception left the handler
     query |-> <<>>, nchat |-> 0, nstt |-> 0, chat_result |-> "none", stt_result |-> "none",
     ud0 |-> EmptyDict, hist0 |-> <<>>, q0 |-> NoQueue, chat0 |-> <<>>,
     chosen |-> FALSE, enabled |-> FALSE, escaped |-> FALSE]

Init ==
    /\ user_data = [u \in Users |-> EmptyDict]
    /\ conversation_history = <<>>
    /\ tasks = [t \in TaskIds |-> IdleTask]
    /\ events = 0
    /\ queued = [u \in Users |-> NoQueue]
    /\ transcribed = [u \in Users |-> FALSE]

\* a slot holds a handler in flight, or the record of the handler that ended in it
Running(t) == tasks[t].pc \notin {"idle", "done"}
AllIdle == \A t \in TaskIds : ~Running(t)
Free(t) == ~Running(t) /\ \A s \in TaskIds : s < t => Running(s)

\* a handler starts for user u: its locals at entry
NewTask(h, u) ==
    [IdleTask EXCEPT !.h = h, !.u = u,
                     !.ud0 = user_data[u], !.hist0 = conversation_history,
                     !.q0 = queued[u]]

At(t, h, pc) == tasks[t].h = h /\ tasks[t].pc = pc
SetTask(t, rec) == tasks' = [tasks EXCEPT ![t] = rec]
\* the handler returns (escaped = FALSE) or an exception leaves it (TRUE)
Finish(rec, escaped) == [rec EXCEPT !.pc = "done", !.escaped = escaped]


\* chat(user_query) up to its await: the user turn is appended, then the model is called
EnterChat(rec, user_query) ==
    [rec EXCEPT !.query = user_query, !.nchat = @ + 1, !.chat0 = conversation_history,
                !.chat_result = "none"]

(* --------------------------- /start, /help ---------------------------- *)
\* start, help: one notice, no state
start(t, u) ==
    /\ Free(t)
    /\ events' = events + 1
    /\ SetTask(t, [NewTask("start", u) EXCEPT !.pc = "s_send"])
    /\ UNCHANGED <<user_data, conversation_history, queued, transcribed>>

start_send(t) ==
    /\ At(t, "start", "s_send")
    /\ \E ok \in BOOLEAN : SetTask(t, Finish(tasks[t], ~ok))
    /\ UNCHANGED <<user_data, conversation_history, events, queued, transcribed>>

(* -------------------------------- /new -------------------------------- *)
\* context.user_data.clear()
ClearUserData(d) == EmptyDict

new(t, u) ==
    /\ Free(t)
    /\ events' = events + 1
    /\ user_data' = [user_data EXCEPT ![u] = ClearUserData(@)]
    /\ queued' = [queued EXCEPT ![u] = NoQueue]
    /\ transcribed' = [transcribed EXCEPT ![u] = FALSE]
    /\ SetTask(t, [NewTask("new", u) EXCEPT !.pc = "n_send"])
    /\ UNCHANGED conversation_history

new_send(t) ==
    /\ At(t, "new", "n_send")
    /\ \E ok \in BOOLEAN : SetTask(t, Finish(tasks[t], ~ok))
    /\ UNCHANGED <<user_data, conversation_history, events, queued, transcribed>>

(* ---------------------- handle_unsupported_file ----------------------- *)
handle_unsupported_file(t, u) ==
    /\ Free(t)
    /\ events' = events + 1
    /\ SetTask(t, [NewTask("handle_unsupported_file", u) EXCEPT !.pc = "u_send"])
    /\ UNCHANGED <<user_data, conversation_history, queued, transcribed>>

\* mutant: the handler starts the session over before recording the notice
handle_unsupported_file_send_reset(t) ==
    /\ At(t, "handle_unsupported_file", "u_send")
    /\ \E ok \in BOOLEAN, id \in MsgIds :
        IF ok
        THEN /\ user_data' = [user_data EXCEPT ![tasks[t].u] =
                                  Put(EmptyDict, "unsupported_warning_msg_id", id)]
             /\ SetTask(t, Finish(tasks[t], FALSE))
        ELSE /\ SetTask(t, Finish(tasks[t], TRUE))
             /\ UNCHANGED user_data
    /\ UNCHANGED <<conversation_history, events, queued, transcribed>>

handle_unsupported_file_send(t) ==
    /\ At(t, "handle_unsupported_file", "u_send")
    /\ \E ok \in BOOLEAN, id \in MsgIds :
        IF ok
        THEN /\ user_data' = [user_data EXCEPT ![tasks[t].u] =
                                  Put(@, "unsupported_warning_msg_id", id)]
             /\ SetTask(t, Finish(tasks[t], FALSE))
        ELSE /\ SetTask(t, Finish(tasks[t], TRUE))
             /\ UNCHANGED user_data
    /\ UNCHANGED <<conversation_history, events, queued, transcribed>>

(* ----------------------------- handle_text ---------------------------- *)
\* mutant: a text is sent to chat whatever the phase
handle_text_always_chat(t, u, user_query) ==
    /\ Free(t)
    /\ events' = events + 1
    /\ SetTask(t, [NewTask("handle_text", u) EXCEPT !.text = user_query,
                                                   !.pc = "t_processing"])
    /\ UNCHANGED <<user_data, queued, conversation_history, transcribed>>

handle_text(t, u, user_query) ==
    /\ Free(t)
    /\ events' = events + 1
    /\ LET d == user_data[u]
           rec == [NewTask("handle_text", u) EXCEPT !.text = user_query]
       IN  IF Chatting(d)
           THEN \* chat mode: the "processing" notice is sent first
                /\ SetTask(t, [rec EXCEPT !.pc = "t_processing"])
                /\ UNCHANGED <<user_data, queued>>
           ELSE IF ~Has(d, "initial_query")
           THEN \* first query before audio
                /\ user_data' = [user_data EXCEPT ![u] = Put(d, "initial_query", user_query)]
                /\ queued' = [queued EXCEPT ![u] = [valid |-> TRUE, texts |-> <<user_query>>]]
                /\ SetTask(t, [rec EXCEPT !.pc = "t_warning"])
           ELSE \* additional queries before audio
                /\ user_data' = [user_data EXCEPT ![u] =
                        Put(d, "initial_query", AppendQuery(d["initial_query"], user_query))]
                /\ queued' = [queued EXCEPT ![u].texts = Append(@, user_query)]
                /\ IF Has(d, "warning_msg_id")
                   THEN SetTask(t, [rec EXCEPT !.pc = "t_edit"])
                   ELSE SetTask(t, Finish(rec, FALSE))
    /\ UNCHANGED <<conversation_history, transcribed>>

\* await send_message("processing..."), outside the try
handle_text_processing(t) ==
    /\ At(t, "handle_text", "t_processing")
    /\ \E ok \in BOOLEAN :
        IF ok
        THEN /\ conversation_history' = chat_append_user(conversation_history, tasks[t].text)
             /\ SetTask(t, [EnterChat(tasks[t], tasks[t].text) EXCEPT !.pc = "t_chat"])
        ELSE /\ SetTask(t, Finish(tasks[t], TRUE))
             /\ UNCHANGED conversation_history
    /\ UNCHANGED <<user_data, events, queued, transcribed>>

\* await client.responses.create(...) inside chat
handle_text_chat(t) ==
    /\ At(t, "handle_text", "t_chat")
    /\ \E ok \in BOOLEAN, output_text \in Replies :
        IF ok
        THEN /\ conversation_history' = chat_append_assistant(conversation_history, output_text)
             /\ LET rec == [tasks[t] EXCEPT !.response = output_text, !.chat_result = "ok"]
                IN  IF Truthy(output_text)
                    THEN SetTask(t, [rec EXCEPT !.pc = "t_delete"])
                    ELSE SetTask(t, Finish(rec, FALSE))
        ELSE /\ SetTask(t, [tasks[t] EXCEPT !.chat_result = "failed", !.pc = "t_error"])
             /\ UNCHANGED conversation_history
    /\ UNCHANGED <<user_data, events, queued, transcribed>>

\* await delete_message(processing_msg), inside the try
handle_text_delete(t) ==
    /\ At(t, "handle_text", "t_delete")
    /\ \E ok \in BOOLEAN :
        SetTask(t, [tasks[t] EXCEPT !.pc = IF ok THEN "t_send" ELSE "t_error"])
    /\ UNCHANGED <<user_data, conversation_history, events, queued, transcribed>>

\* await send_message(response), inside the try
handle_text_send(t) ==
    /\ At(t, "handle_text", "t_send")
    /\ \E ok \in BOOLEAN :
        IF ok THEN SetTask(t, Finish(tasks[t], FALSE))
              ELSE SetTask(t, [tasks[t] EXCEPT !.pc = "t_error"])
    /\ UNCHANGED <<user_data, conversation_history, events, queued, transcribed>>

\* await send_message(error notice), inside the except
handle_text_error(t) ==
    /\ At(t, "handle_text", "t_error")
    /\ \E ok \in BOOLEAN : SetTask(t, Finish(tasks[t], ~ok))
    /\ UNCHANGED <<user_data, conversation_history, events, queued, transcribed>>

\* await send_message("audio not received yet"), then warning_msg_id is stored
handle_text_warning(t) ==
    /\ At(t, "handle_text", "t_warning")
    /\ \E ok \in BOOLEAN, id \in MsgIds :
        IF ok
        THEN /\ user_data' = [user_data EXCEPT ![tasks[t].u] = Put(@, "warning_msg_id", id)]
             /\ SetTask(t, Finish(tasks[t], FALSE))
        ELSE /\ SetTask(t, Finish(tasks[t], TRUE))
             /\ UNCHANGED user_data
    /\ UNCHANGED <<conversation_history, events, queued, transcribed>>

\* await edit_message_text(...): a failure is logged and swallowed
handle_text_edit(t) ==
    /\ At(t, "handle_text", "t_edit")
    /\ SetTask(t, Finish(tasks[t], FALSE))
    /\ UNCHANGED <<user_data, conversation_history, events, queued, transcribed>>

(* ----------------------- combined_audio_handler ----------------------- *)
\* routes an audio or voice message: voice query when chatting, interview audio otherwise
combined_audio_handler(t, u, mime, caption) ==
    /\ Free(t)
    /\ events' = events + 1
    /\ IF Chatting(user_data[u])
       THEN \* handle_voice_query: the temporary .ogg file is created before the try
            SetTask(t, [NewTask("handle_voice_query", u) EXCEPT
                            !.mime = mime, !.caption = caption,
                            !.file_path = TRUE, !.on_disk = TRUE, !.pc = "v_get_file"])
       ELSE SetTask(t, [NewTask("handle_audio", u) EXCEPT
                            !.mime = mime, !.caption = caption, !.pc = "a_get_file"])
    /\ UNCHANGED <<user_data, conversation_history, queued, transcribed>>

(* ---------------------------- handle_audio ---------------------------- *)
\* the finally block: os.remove is called only after successful processing; it
\* removes the file (removed) or raises, which is logged and swallowed
AudioFinally(rec, removed) ==
    [rec EXCEPT !.on_disk = IF rec.processed_successfully /\ rec.file_path /\ rec.on_disk
                               /\ removed
                            THEN FALSE ELSE @]

\* "Enable chat mode" reached: end of the try block, then finally
AudioEnable(t, rec) ==
    /\ user_data' = [user_data EXCEPT ![rec.u] = EnableChatMode(@)]
    /\ queued' = [queued EXCEPT ![rec.u] = NoQueue]
    /\ (\E removed \in BOOLEAN :
           SetTask(t, Finish(AudioFinally([rec EXCEPT !.enabled = TRUE], removed), FALSE)))

\* context.user_data["initial_query"] = pending_query, then the "query status" notice
AudioStoreQuery(t, rec, d) ==
    /\ user_data' = [user_data EXCEPT ![rec.u] = Put(d, "initial_query", rec.pending_query)]
    /\ queued' = [queued EXCEPT ![rec.u].valid =
                      @ /\ rec.pending_query = GetInitialQuery(user_data[rec.u])]
    /\ SetTask(t, [rec EXCEPT !.pc = "a_query_status"])

\* await media.get_file(); then the MIME check and the temporary file
handle_audio_get_file(t) ==
    /\ At(t, "handle_audio", "a_get_file")
    /\ \E ok \in BOOLEAN :
        IF ~ok THEN SetTask(t, [tasks[t] EXCEPT !.pc = "a_error"])
        ELSE IF ~Truthy(Extension(tasks[t].mime))
        THEN SetTask(t, [tasks[t] EXCEPT !.pc = "a_unsupported"])
        ELSE SetTask(t, [tasks[t] EXCEPT !.file_path = TRUE, !.on_disk = TRUE,
                                         !.pc = "a_download"])
    /\ UNCHANGED <<user_data, conversation_history, events, queued, transcribed>>

\* await send_message("unsupported audio format"), then return
handle_audio_unsupported(t) ==
    /\ At(t, "handle_audio", "a_unsupported")
    /\ \E ok \in BOOLEAN :
        IF ok THEN (\E removed \in BOOLEAN :
                       SetTask(t, Finish(AudioFinally(tasks[t], removed), FALSE)))
              ELSE SetTask(t, [tasks[t] EXCEPT !.pc = "a_error"])
    /\ UNCHANGED <<user_data, conversation_history, events, queued, transcribed>>

\* await download_task
handle_audio_download(t) ==
    /\ At(t, "handle_audio", "a_download")
    /\ \E ok \in BOOLEAN :
        SetTask(t, [tasks[t] EXCEPT !.pc =
            IF ~ok THEN "a_error"
            ELSE IF Has(user_data[tasks[t].u], "unsupported_warning_msg_id")
                 THEN "a_delete_unsupported" ELSE "a_status"])
    /\ UNCHANGED <<user_data, conversation_history, events, queued, transcribed>>

\* await delete_message(unsupported warning): a failure is swallowed; then the key is popped
handle_audio_delete_unsupported(t) ==
    /\ At(t, "handle_audio", "a_delete_unsupported")
    /\ user_data' = [user_data EXCEPT ![tasks[t].u] = Pop(@, "unsupported_warning_msg_id")]
    /\ SetTask(t, [tasks[t] EXCEPT !.pc = "a_status"])
    /\ UNCHANGED <<conversation_history, events, queued, transcribed>>

\* await send_message("audio received, processing"); then prepare_conversation is called
handle_audio_status(t) ==
    /\ At(t, "handle_audio", "a_status")
    /\ \E ok \in BOOLEAN :
        IF ok THEN SetTask(t, [tasks[t] EXCEPT !.nstt = @ + 1, !.pc = "a_transcribe"])
              ELSE SetTask(t, [tasks[t] EXCEPT !.pc = "a_error"])
    /\ UNCHANGED <<user_data, conversation_history, events, queued, transcribed>>

\* mutant: a failed transcription is swallowed and the handler goes on
prepare_conversation_swallow(t) ==
    /\ At(t, "handle_audio", "a_transcribe")
    /\ \E ok \in BOOLEAN, transcript \in Transcripts :
        IF ok
        THEN /\ conversation_history' = InitialHistory(transcript)
             /\ transcribed' = [transcribed EXCEPT ![tasks[t].u] = TRUE]
             /\ SetTask(t, [tasks[t] EXCEPT !.transcript = transcript, !.stt_result = "ok",
                                               !.pc = "a_delete_status"])
        ELSE /\ SetTask(t, [tasks[t] EXCEPT !.stt_result = "failed", !.pc = "a_delete_status"])
             /\ UNCHANGED <<conversation_history, transcribed>>
    /\ UNCHANGED <<user_data, events, queued>>

\* mutant: the history is cleared before the transcription is awaited
prepare_conversation_clear_first(t) ==
    /\ At(t, "handle_audio", "a_transcribe")
    /\ \E ok \in BOOLEAN, transcript \in Transcripts :
        IF ok
        THEN /\ conversation_history' = InitialHistory(transcript)
             /\ transcribed' = [transcribed EXCEPT ![tasks[t].u] = TRUE]
             /\ SetTask(t, [tasks[t] EXCEPT !.transcript = transcript, !.stt_result = "ok",
                                               !.pc = "a_delete_status"])
        ELSE /\ conversation_history' = <<>>
             /\ SetTask(t, [tasks[t] EXCEPT !.stt_result = "failed", !.pc = "a_error"])
             /\ UNCHANGED transcribed
    /\ UNCHANGED <<user_data, events, queued>>

\* prepare_conversation: await transcribe_audio(...), then the history is replaced
prepare_conversation(t) ==
    /\ At(t, "handle_audio", "a_transcribe")
    /\ \E ok \in BOOLEAN, transcript \in Transcripts :
        IF ok
        THEN /\ conversation_history' = InitialHistory(transcript)
             /\ transcribed' = [transcribed EXCEPT ![tasks[t].u] = TRUE]
             /\ SetTask(t, [tasks[t] EXCEPT !.transcript = transcript, !.stt_result = "ok",
                                               !.pc = "a_delete_status"])
        ELSE /\ SetTask(t, [tasks[t] EXCEPT !.stt_result = "failed", !.pc = "a_error"])
             /\ UNCHANGED <<conversation_history, transcribed>>
    /\ UNCHANGED <<user_data, events, queued>>

\* await delete_message(status_message); then the pending query is chosen
handle_audio_delete_status(t) ==
    /\ At(t, "handle_audio", "a_delete_status")
    /\ \E ok \in BOOLEAN :
        LET d == user_data[tasks[t].u]
            rec == [tasks[t] EXCEPT !.pending_query = PendingQuery(tasks[t].caption, d),
                                    !.chosen = TRUE]
        IN  IF ~ok
            THEN /\ SetTask(t, [tasks[t] EXCEPT !.pc = "a_error"])
                 /\ UNCHANGED <<user_data, queued>>
            ELSE IF ~Truthy(rec.pending_query)
            THEN /\ SetTask(t, [rec EXCEPT !.pc = "a_ready"])
                 /\ UNCHANGED <<user_data, queued>>
            ELSE IF Has(d, "warning_msg_id")
            THEN /\ SetTask(t, [rec EXCEPT !.pc = "a_delete_warning"])
                 /\ UNCHANGED <<user_data, queued>>
            ELSE AudioStoreQuery(t, rec, d)
    /\ UNCHANGED <<conversation_history, events, transcribed>>

\* await delete_message(warning): a failure is swallowed; then the key is popped
handle_audio_delete_warning(t) ==
    /\ At(t, "handle_audio", "a_delete_warning")
    /\ AudioStoreQuery(t, tasks[t], Pop(user_data[tasks[t].u], "warning_msg_id"))
    /\ UNCHANGED <<conversation_history, events, transcribed>>

\* await send_message("audio processed, processing your query"); then chat is called
handle_audio_query_status(t) ==
    /\ At(t, "handle_audio", "a_query_status")
    /\ \E ok \in BOOLEAN :
        IF ok
        THEN /\ conversation_history' =
                    chat_append_user(conversation_history, tasks[t].pending_query)
             /\ SetTask(t, [EnterChat(tasks[t], tasks[t].pending_query) EXCEPT !.pc = "a_chat"])
        ELSE /\ SetTask(t, [tasks[t] EXCEPT !.pc = "a_error"])
             /\ UNCHANGED conversation_history
    /\ UNCHANGED <<user_data, events, queued, transcribed>>

\* await client.responses.create(...) inside chat
handle_audio_chat(t) ==
    /\ At(t, "handle_audio", "a_chat")
    /\ \E ok \in BOOLEAN, output_text \in Replies :
        IF ~ok
        THEN /\ SetTask(t, [tasks[t] EXCEPT !.chat_result = "failed", !.pc = "a_chat_error"])
             /\ UNCHANGED <<conversation_history, user_data, queued>>
        ELSE /\ conversation_history' = chat_append_assistant(conversation_history, output_text)
             /\ LET rec == [tasks[t] EXCEPT !.response = output_text, !.chat_result = "ok"]
                IN  IF Truthy(output_text)
                    THEN /\ SetTask(t, [rec EXCEPT !.pc = "a_delete_query"])
                         /\ UNCHANGED <<user_data, queued>>
                    ELSE AudioEnable(t, rec)
    /\ UNCHANGED <<events, transcribed>>

\* await delete_message(query_status), inside the inner try
handle_audio_delete_query(t) ==
    /\ At(t, "handle_audio", "a_delete_query")
    /\ \E ok \in BOOLEAN :
        SetTask(t, [tasks[t] EXCEPT !.pc = IF ok THEN "a_send" ELSE "a_chat_error"])
    /\ UNCHANGED <<user_data, conversation_history, events, queued, transcribed>>

\* await send_message(response), inside the inner try
handle_audio_send(t) ==
    /\ At(t, "handle_audio", "a_send")
    /\ \E ok \in BOOLEAN :
        IF ok
        THEN AudioEnable(t, [tasks[t] EXCEPT !.processed_successfully = TRUE])
        ELSE /\ SetTask(t, [tasks[t] EXCEPT !.pc = "a_chat_error"])
             /\ UNCHANGED <<user_data, queued>>
    /\ UNCHANGED <<conversation_history, events, transcribed>>

\* await send_message(error notice), inside the inner except
handle_audio_chat_error(t) ==
    /\ At(t, "handle_audio", "a_chat_error")
    /\ \E ok \in BOOLEAN :
        IF ok
        THEN AudioEnable(t, tasks[t])
        ELSE /\ SetTask(t, [tasks[t] EXCEPT !.pc = "a_error"])
             /\ UNCHANGED <<user_data, queued>>
    /\ UNCHANGED <<conversation_history, events, transcribed>>

\* await send_message("audio processed, you may ask"), no pending query
handle_audio_ready(t) ==
    /\ At(t, "handle_audio", "a_ready")
    /\ \E ok \in BOOLEAN :
        IF ok
        THEN AudioEnable(t, [tasks[t] EXCEPT !.processed_successfully = TRUE])
        ELSE /\ SetTask(t, [tasks[t] EXCEPT !.pc = "a_error"])
             /\ UNCHANGED <<user_data, queued>>
    /\ UNCHANGED <<conversation_history, events, transcribed>>

\* await send_message("error processing audio"), inside the outer except; then finally
handle_audio_error(t) ==
    /\ At(t, "handle_audio", "a_error")
    /\ \E ok \in BOOLEAN : (\E removed \in BOOLEAN :
                               SetTask(t, Finish(AudioFinally(tasks[t], removed), ~ok)))
    /\ UNCHANGED <<user_data, conversation_history, events, queued, transcribed>>

(* ------------------------- handle_voice_query ------------------------- *)
\* the finally block: os.remove is called whenever the file exists; it removes the
\* file (removed) or raises, which is logged and swallowed
VoiceFinally(rec, removed) ==
    [rec EXCEPT !.on_disk = IF rec.on_disk /\ removed THEN FALSE ELSE @]

\* await media.get_file()
handle_voice_query_get_file(t) ==
    /\ At(t, "handle_voice_query", "v_get_file")
    /\ \E ok \in BOOLEAN :
        SetTask(t, [tasks[t] EXCEPT !.pc = IF ok THEN "v_download" ELSE "v_error"])
    /\ UNCHANGED <<user_data, conversation_history, events, queued, transcribed>>

\* await download_to_drive(file_path); then transcribe_voice is called
handle_voice_query_download(t) ==
    /\ At(t, "handle_voice_query", "v_download")
    /\ \E ok \in BOOLEAN :
        IF ok THEN SetTask(t, [tasks[t] EXCEPT !.nstt = @ + 1, !.pc = "v_transcribe"])
              ELSE SetTask(t, [tasks[t] EXCEPT !.pc = "v_error"])
    /\ UNCHANGED <<user_data, conversation_history, events, queued, transcribed>>

\* await transcribe_voice(file_path)
transcribe_voice(t) ==
    /\ At(t, "handle_voice_query", "v_transcribe")
    /\ \E ok \in BOOLEAN, transcribed_text \in VoiceTexts :
        IF ok THEN SetTask(t, [tasks[t] EXCEPT !.text = transcribed_text,
                                               !.stt_result = "ok", !.pc = "v_processing"])
              ELSE SetTask(t, [tasks[t] EXCEPT !.stt_result = "failed", !.pc = "v_error"])
    /\ UNCHANGED <<user_data, conversation_history, events, queued, transcribed>>

\* await send_message("processing..."); then chat is called
handle_voice_query_processing(t) ==
    /\ At(t, "handle_voice_query", "v_processing")
    /\ \E ok \in BOOLEAN :
        IF ok
        THEN /\ conversation_history' = chat_append_user(conversation_history, tasks[t].text)
             /\ SetTask(t, [EnterChat(tasks[t], tasks[t].text) EXCEPT !.pc = "v_chat"])
        ELSE /\ SetTask(t, [tasks[t] EXCEPT !.pc = "v_error"])
             /\ UNCHANGED conversation_history
    /\ UNCHANGED <<user_data, events, queued, transcribed>>

\* await client.responses.create(...) inside chat
handle_voice_query_chat(t) ==
    /\ At(t, "handle_voice_query", "v_chat")
    /\ \E ok \in BOOLEAN, output_text \in Replies :
        IF ok
        THEN /\ conversation_history' = chat_append_assistant(conversation_history, output_text)
             /\ LET rec == [tasks[t] EXCEPT !.response = output_text, !.chat_result = "ok"]
                IN  IF Truthy(output_text)
                    THEN SetTask(t, [rec EXCEPT !.pc = "v_delete"])
                    ELSE (\E removed \in BOOLEAN :
                             SetTask(t, Finish(VoiceFinally(rec, removed), FALSE)))
        ELSE /\ SetTask(t, [tasks[t] EXCEPT !.chat_result = "failed", !.pc = "v_chat_error"])
             /\ UNCHANGED conversation_history
    /\ UNCHANGED <<user_data, events, queued, transcribed>>

\* await delete_message(processing_msg), inside the inner try
handle_voice_query_delete(t) ==
    /\ At(t, "handle_voice_query", "v_delete")
    /\ \E ok \in BOOLEAN :
        SetTask(t, [tasks[t] EXCEPT !.pc = IF ok THEN "v_send" ELSE "v_chat_error"])
    /\ UNCHANGED <<user_data, conversation_history, events, queued, transcribed>>

\* await send_message(response), inside the inner try
handle_voice_query_send(t) ==
    /\ At(t, "handle_voice_query", "v_send")
    /\ \E ok \in BOOLEAN :
        IF ok THEN (\E removed \in BOOLEAN :
                       SetTask(t, Finish(VoiceFinally(tasks[t], removed), FALSE)))
              ELSE SetTask(t, [tasks[t] EXCEPT !.pc = "v_chat_error"])
    /\ UNCHANGED <<user_data, conversation_history, events, queued, transcribed>>

\* await send_message(error notice), inside the inner except
handle_voice_query_chat_error(t) ==
    /\ At(t, "handle_voice_query", "v_chat_error")
    /\ \E ok \in BOOLEAN :
        IF ok THEN (\E removed \in BOOLEAN :
                       SetTask(t, Finish(VoiceFinally(tasks[t], removed), FALSE)))
              ELSE SetTask(t, [tasks[t] EXCEPT !.pc = "v_error"])
    /\ UNCHANGED <<user_data, conversation_history, events, queued, transcribed>>

\* await send_message("error processing voice query"), inside the outer except; then finally
handle_voice_query_error(t) ==
    /\ At(t, "handle_voice_query", "v_error")
    /\ \E ok \in BOOLEAN : (\E removed \in BOOLEAN :
                               SetTask(t, Finish(VoiceFinally(tasks[t], removed), ~ok)))
    /\ UNCHANGED <<user_data, conversation_history, events, queued, transcribed>>

(* --------------------------- unknown_command -------------------------- *)
\* Command tokens and message texts are strings of characters: here sequences of
\* one-character strings.
AVAILABLE_COMMANDS ==
    << <<"s", "t", "a", "r", "t">>, <<"n", "e", "w">>, <<"h", "e", "l", "p">> >>

\* the characters of the known commands, in code-point order
CodePoints == <<"a", "e", "h", "l", "n", "p", "r", "s", "t", "w">>
Ord(c) == CHOOSE i \in 1..Len(CodePoints) : CodePoints[i] = c

RECURSIVE StrLess(_, _)
\* x < y on strings
StrLess(x, y) ==
    IF Len(y) = 0 THEN FALSE
    ELSE IF Len(x) = 0 THEN TRUE
    ELSE IF x[1] = y[1] THEN StrLess(Tail(x), Tail(y))
    ELSE Ord(x[1]) < Ord(y[1])

\* a ratio is kept as the fraction num/den, den > 0
RatioLess(r, s) == r.num * s.den < s.num * r.den
RatioGeq(r, s) == ~RatioLess(r, s)

\* difflib._calculate_ratio: 2.0 * matches / length, 1.0 for length 0
calculate_ratio(matches, length) ==
    IF length > 0 THEN [num |-> 2 * matches, den |-> length]
                  ELSE [num |-> 1, den |-> 1]

RECURSIVE BlockLen(_, _, _, _, _, _)
\* length of the common run a[i:] = b[j:] inside a[:ahi], b[:bhi] (0-based, half-open)
BlockLen(a, i, ahi, b, j, bhi) ==
    IF i < ahi /\ j < bhi /\ a[i + 1] = b[j + 1]
    THEN 1 + BlockLen(a, i + 1, ahi, b, j + 1, bhi)
    ELSE 0

\* SequenceMatcher.find_longest_match without junk: the longest block common to
\* a[alo:ahi] and b[blo:bhi]; of the longest ones the one starting earliest in a,
\* and of those the one starting earliest in b; (alo, blo, 0) when there is none
find_longest_match(a, alo, ahi, b, blo, bhi) ==
    LET starts == (alo..(ahi - 1)) \X (blo..(bhi - 1))
        size(p) == BlockLen(a, p[1], ahi, b, p[2], bhi)
        longest == {p \in starts : size(p) > 0 /\ \A q \in starts : size(q) <= size(p)}
    IN  IF longest = {} THEN [a |-> alo, b |-> blo, size |-> 0]
        ELSE LET p == CHOOSE p \in longest :
                          \A q \in longest :
                              p[1] < q[1] \/ (p[1] = q[1] /\ p[2] <= q[2])
             IN  [a |-> p[1], b |-> p[2], size |-> size(p)]

RECURSIVE matching_blocks_size(_, _, _, _, _, _)
\* SequenceMatcher.get_matching_blocks: the longest block, then the same to its left
\* and to its right; the sum of the sizes of the blocks found
matching_blocks_size(a, alo, ahi, b, blo, bhi) ==
    LET x == find_longest_match(a, alo, ahi, b, blo, bhi)
    IN  IF x.size = 0 THEN 0
        ELSE x.size
             + (IF alo < x.a /\ blo < x.b
                THEN matching_blocks_size(a, alo, x.a, b, blo, x.b) ELSE 0)
             + (IF x.a + x.size < ahi /\ x.b + x.size < bhi
                THEN matching_blocks_size(a, x.a + x.size, ahi, b, x.b + x.size, bhi)
                ELSE 0)

\* SequenceMatcher.ratio
ratio(a, b) ==
    calculate_ratio(matching_blocks_size(a, 0, Len(a), b, 0, Len(b)), Len(a) + Len(b))

\* SequenceMatcher.quick_ratio: elements of a that b still has a copy of
quick_ratio(a, b) ==
    LET fullbcount(elt) == Cardinality({j \in 1..Len(b) : b[j] = elt})
        matches == Cardinality({i \in 1..Len(a) :
                        Cardinality({k \in 1..i : a[k] = a[i]}) <= fullbcount(a[i])})
    IN  calculate_ratio(matches, Len(a) + Len(b))

\* SequenceMatcher.real_quick_ratio
real_quick_ratio(a, b) ==
    calculate_ratio(IF Len(a) < Len(b) THEN Len(a) ELSE Len(b), Len(a) + Len(b))

\* difflib._nlargest(n, result) on the (score, x) pairs of the possibilities in
\* `result` (indices into possibilities): the n largest, largest first
nlargest(n, result, score, possibilities) ==
    LET greater(p, q) == \/ RatioLess(score[q], score[p])
                         \/ /\ ~RatioLess(score[p], score[q])
                            /\ StrLess(possibilities[q], possibilities[p])
        rank(p) == Cardinality({q \in result : greater(q, p)})
        m == IF Cardinality(result) < n THEN Cardinality(result) ELSE n
    IN  [k \in 1..m |-> possibilities[CHOOSE p \in result : rank(p) = k - 1]]

\* mutant: the first n possibilities are kept, whatever their ratio
get_close_matches_no_cutoff(word, possibilities, n, cutoff) ==
    SubSeq(possibilities, 1, IF Len(possibilities) < n THEN Len(possibilities) ELSE n)

\* difflib.get_close_matches(word, possibilities, n, cutoff)
get_close_matches(word, possibilities, n, cutoff) ==
    LET score == [p \in DOMAIN possibilities |-> ratio(possibilities[p], word)]
        result == {p \in DOMAIN possibilities :
                      /\ RatioGeq(real_quick_ratio(possibilities[p], word), cutoff)
                      /\ RatioGeq(quick_ratio(possibilities[p], word), cutoff)
                      /\ RatioGeq(score[p], cutoff)}
    IN  nlargest(n, result, score, possibilities)

\* the characters str.split() splits at: those for which str.isspace() holds; a
\* character with no escape in a string is written by its code point, "U+00A0"
Whitespace ==
    {"\t", "\n", "U+000B", "\f", "\r", "U+001C", "U+001D", "U+001E", "U+001F", " ",
     "U+0085", "U+00A0", "U+1680", "U+2000", "U+2001", "U+2002", "U+2003", "U+2004",
     "U+2005", "U+2006", "U+2007", "U+2008", "U+2009", "U+200A", "U+2028", "U+2029",
     "U+202F", "U+205F", "U+3000"}

RECURSIVE SkipWhitespace(_)
\* str.split(): leading whitespace is dropped
SkipWhitespace(text) ==
    IF Len(text) > 0 /\ text[1] \in Whitespace THEN SkipWhitespace(Tail(text))
    ELSE text

RECURSIVE UpToWhitespace(_)
\* str.split(): a word ends at the first whitespace character
UpToWhitespace(text) ==
    IF Len(text) = 0 \/ text[1] \in Whitespace THEN <<>>
    ELSE <<text[1]>> \o UpToWhitespace(Tail(text))

\* text.split()[0], for a text that holds a word
FirstWord(text) == UpToWhitespace(SkipWhitespace(text))

\* command = update.message.text.split()[0][1:]
CommandOf(text) == SubSeq(FirstWord(text), 2, Len(FirstWord(text)))

\* the notice: the suggestions, or the pointer to /help alone
SuggestionText(command, possible_matches) ==
    IF Len(possible_matches) > 0
    THEN <<"unknown command", command, "did you mean">> \o possible_matches \o <<"use /help">>
    ELSE <<"unknown command", command, "use /help">>

\* unknown_command up to its await: the suggestions are computed, then the notice is sent
unknown_command(t, u, text) ==
    /\ Free(t)
    /\ events' = events + 1
    /\ LET command == CommandOf(text)
           possible_matches ==
               get_close_matches(command, AVAILABLE_COMMANDS, 3, [num |-> 6, den |-> 10])
       IN  SetTask(t, [NewTask("unknown_command", u) EXCEPT
                           !.text = command, !.possible_matches = possible_matches,
                           !.suggestion_text = SuggestionText(command, possible_matches),
                           !.pc = "k_send"])
    /\ UNCHANGED <<user_data, conversation_history, queued, transcribed>>

\* await send_message(suggestion_text), no try around it
unknown_command_send(t) ==
    /\ At(t, "unknown_command", "k_send")
    /\ \E ok \in BOOLEAN : SetTask(t, Finish(tasks[t], ~ok))
    /\ UNCHANGED <<user_data, conversation_history, events, queued, transcribed>>

(* ---------------------------- the dispatcher --------------------------- *)
\* an update arrives and is routed to its handler (main: the handlers list)
Dispatch(t) ==
    \E u \in Users :
        \/ start(t, u)
        \/ new(t, u)
        \/ handle_unsupported_file(t, u)
        \/ \E user_query \in Texts : handle_text(t, u, user_query)
        \/ \E mime \in Mimes, caption \in Captions : combined_audio_handler(t, u, mime, caption)

\* a handler in flight resumes at its await
Step(t) ==
    \/ start_send(t)
    \/ new_send(t)
    \/ handle_unsupported_file_send(t)
    \/ handle_text_processing(t)
    \/ handle_text_chat(t)
    \/ handle_text_delete(t)
    \/ handle_text_send(t)
    \/ handle_text_error(t)
    \/ handle_text_warning(t)
    \/ handle_text_edit(t)
    \/ handle_audio_get_file(t)
    \/ handle_audio_unsupported(t)
    \/ handle_audio_download(t)
    \/ handle_audio_delete_unsupported(t)
    \/ handle_audio_status(t)
    \/ prepare_conversation(t)
    \/ handle_audio_delete_status(t)
    \/ handle_audio_delete_warning(t)
    \/ handle_audio_query_status(t)
    \/ handle_audio_chat(t)
    \/ handle_audio_delete_query(t)
    \/ handle_audio_send(t)
    \/ handle_audio_chat_error(t)
    \/ handle_audio_ready(t)
    \/ handle_audio_error(t)
    \/ handle_voice_query_get_file(t)
    \/ handle_voice_query_download(t)
    \/ transcribe_voice(t)
    \/ handle_voice_query_processing(t)
    \/ handle_voice_query_chat(t)
    \/ handle_voice_query_delete(t)
    \/ handle_voice_query_send(t)
    \/ handle_voice_query_chat_error(t)
    \/ handle_voice_query_error(t)

\* updates are processed one at a time (Application built without concurrent updates)
Next ==
    \/ AllIdle /\ events < MaxEvents /\ \E t \in TaskIds : Dispatch(t)
    \/ \E t \in TaskIds : Step(t)

Spec == Init /\ [][Next]_vars

\* a session that has received its interview audio and no query yet
ChattingInit ==
    /\ user_data = [u \in Users |-> IF u = "u1" THEN Put(EmptyDict, "chatting", TRUE)
                                    ELSE EmptyDict]
    /\ conversation_history = InitialHistory(<<"T1">>)
    /\ tasks = [t \in TaskIds |-> IdleTask]
    /\ events = 0
    /\ queued = [u \in Users |-> NoQueue]
    /\ transcribed = [u \in Users |-> u = "u1"]

\* handlers of several updates interleave at their awaits
ConcNext ==
    \/ events < MaxConcEvents /\ \E t \in TaskIds : Dispatch(t)
    \/ \E t \in TaskIds : Step(t)

ConcSpec == (Init \/ ChattingInit) /\ [][ConcNext]_vars

\* the message texts that reach unknown_command: "/", a token that is no known
\* command, then the arguments
UnknownTexts ==
    LET tokens == ExampleCommands \cup
                  UNION {[1..k -> CommandChars] : k \in 1..MaxCommandLen}
        known == {AVAILABLE_COMMANDS[i] : i \in DOMAIN AVAILABLE_COMMANDS}
    IN  {<<"/">> \o command \o args : command \in tokens \ known, args \in CommandArgs}

\* the unknown-command handler alone, applied to one update
CmdNext ==
    \/ AllIdle /\ events = 0
       /\ \E t \in TaskIds, u \in Users, text \in UnknownTexts : unknown_command(t, u, text)
    \/ \E t \in TaskIds : unknown_command_send(t)

CmdSpec == Init /\ [][CmdNext]_vars

(* ============================== claims ================================ *)
RECURSIVE JoinNewline(_)
\* the texts joined by newline, in order
JoinNewline(texts) ==
    IF Len(texts) = 0 THEN <<>>
    ELSE IF Len(texts) = 1 THEN texts[1]
    ELSE JoinNewline(SubSeq(texts, 1, Len(texts) - 1)) \o NEWLINE \o texts[Len(texts)]

\* an interview-audio event of accepted format whose transcription succeeded
AudioTranscribed(rec) ==
    /\ rec.h = "handle_audio"
    /\ Truthy(Extension(rec.mime))
    /\ rec.stt_result = "ok"

\* a text event received while the session was awaiting audio
TextQueued(rec) == rec.h = "handle_text" /\ ~Chatting(rec.ud0)

\* C1: in a session awaiting audio whose buffer was empty, N >= 1 texts followed by
\* one captionless audio of accepted format whose transcription succeeds give exactly
\* one chat call, whose query is the N texts joined by newline in arrival order; the
\* text handlers themselves make no chat call.
C1_QueuedTextsOneChat ==
    \A t \in TaskIds :
        /\ TextQueued(tasks[t]) => tasks[t].nchat = 0
        /\ ( /\ AudioTranscribed(tasks[t]) /\ tasks[t].pc = "done"
             /\ ~Truthy(tasks[t].caption)
             /\ tasks[t].q0.valid /\ Len(tasks[t].q0.texts) >= 1 )
           => /\ tasks[t].nchat = 1
              /\ tasks[t].query = JoinNewline(tasks[t].q0.texts)

\* C2: when the transcription of a captioned audio has completed and the pending query
\* is chosen, at most one chat call is made, its query is the caption exactly, and
\* when the handler has ended the pending buffer is empty.
C2_CaptionSupersedesQueue ==
    \A t \in TaskIds :
        ( AudioTranscribed(tasks[t]) /\ tasks[t].chosen /\ Truthy(tasks[t].caption) )
        => /\ tasks[t].nchat <= 1
           /\ tasks[t].nchat = 1 => tasks[t].query = tasks[t].caption
           /\ tasks[t].pc = "done" => ~Has(user_data[tasks[t].u], "initial_query")

\* C3: after /new the session is {phase AWAITING_AUDIO, pendingQuery null, dialogue []}.
C3_ResetClearsSession ==
    \A t \in TaskIds :
        tasks[t].h = "new"
        => /\ ~Chatting(user_data[tasks[t].u])
           /\ ~Has(user_data[tasks[t].u], "initial_query")
           /\ conversation_history = <<>>

\* C4: after a failed chat call the dialogue is what it was before the call.
C4_FailedChatLeavesDialogue ==
    \A t \in TaskIds :
        tasks[t].chat_result = "failed" => conversation_history = tasks[t].chat0

\* C5: after a successful chat call the dialogue is the dialogue before the call
\* followed by a USER turn carrying the query and an ASSISTANT turn carrying the reply.
C5_SuccessfulChatAppendsTwo ==
    \A t \in TaskIds :
        tasks[t].chat_result = "ok"
        => conversation_history =
               tasks[t].chat0 \o << [role |-> "user", content |-> QUERY_PREFIX \o tasks[t].query],
                                    [role |-> "assistant", content |-> tasks[t].response] >>

\* C5 witness: a chat call with a non-empty query and reply has succeeded on an initialized dialogue
C5_Witness ==
    \E t \in TaskIds :
        /\ tasks[t].chat_result = "ok"
        /\ Len(tasks[t].chat0) >= 3
        /\ Truthy(tasks[t].query) /\ Truthy(tasks[t].response)

\* C6: an audio or voice event whose MIME type is not an accepted one never calls the
\* transcription and never changes the phase, whichever handler it is routed to.
C6_UnsupportedMimeNeverTranscribed ==
    \A t \in TaskIds :
        ( /\ tasks[t].h \in {"handle_audio", "handle_voice_query"}
          /\ ~Truthy(Extension(tasks[t].mime)) )
        => /\ tasks[t].nstt = 0
           /\ Chatting(user_data[tasks[t].u]) <=> Chatting(tasks[t].ud0)

\* C7: a session passes from AWAITING_AUDIO to CHATTING only in a step of a handle_audio
\* of that user whose transcription has succeeded, the dialogue being initialized; no
\* other handler and no failed transcription makes that step.
C7_ChattingOnlyAfterTranscription ==
    [][ \A u \in Users :
          ( ~Chatting(user_data[u]) /\ Chatting(user_data'[u]) )
          => \E t \in TaskIds :
                /\ tasks[t].h = "handle_audio" /\ tasks[t].u = u /\ Running(t)
                /\ tasks[t].stt_result = "ok"
                /\ tasks'[t].enabled /\ tasks'[t].pc = "done"
                /\ Len(conversation_history') >= 3
                /\ conversation_history'[1].role = "system" ]_vars

\* C7 witness: a handle_audio that found the session awaiting audio has ended with it chatting
C7_Witness ==
    \E t \in TaskIds :
        /\ tasks[t].h = "handle_audio" /\ tasks[t].enabled
        /\ ~Chatting(tasks[t].ud0)
        /\ Chatting(user_data[tasks[t].u])

\* C8: whenever the chatting flag of a user is set, initial_query is absent.
C8_PendingOnlyWhileAwaiting ==
    \A u \in Users : Chatting(user_data[u]) => ~Has(user_data[u], "initial_query")

\* C9: when the transcription of an interview audio fails, phase, dialogue and
\* pending buffer are what they were when the event arrived, until the handler ends.
C9_FailedTranscriptionLeavesSession ==
    \A t \in TaskIds :
        ( tasks[t].h = "handle_audio" /\ tasks[t].stt_result = "failed" )
        => /\ ~Chatting(user_data[tasks[t].u])
           /\ conversation_history = tasks[t].hist0
           /\ Has(user_data[tasks[t].u], "initial_query") <=> Has(tasks[t].ud0, "initial_query")
           /\ GetInitialQuery(user_data[tasks[t].u]) = GetInitialQuery(tasks[t].ud0)
           /\ queued[tasks[t].u] = tasks[t].q0

\* C9 witness: the transcription failed for a session with queued texts and a dialogue
C9_Witness ==
    \E t \in TaskIds :
        /\ tasks[t].h = "handle_audio" /\ tasks[t].stt_result = "failed"
        /\ tasks[t].pc = "done"
        /\ Has(tasks[t].ud0, "initial_query")
        /\ Len(tasks[t].hist0) >= 3

\* C10: the dialogue of a session is empty when no transcription has succeeded for it
\* since its creation or last reset; otherwise it is non-empty, starts with the one
\* SYSTEM turn, and just after the transcription it is the three initial turns.
C10_DialogueShape ==
    /\ \A u \in Users :
          IF ~transcribed[u]
          THEN conversation_history = <<>>
          ELSE /\ Len(conversation_history) >= 1
               /\ conversation_history[1].role = "system"
               /\ \A i \in 2..Len(conversation_history) :
                      conversation_history[i].role # "system"
    /\ \A t \in TaskIds :
          At(t, "handle_audio", "a_delete_status")
          => \E transcript \in Transcripts :
                conversation_history =
                    << [role |-> "system", content |-> SYSTEM_MESSAGE],
                       [role |-> "user", content |-> CONTEXT_PREFIX \o transcript],
                       [role |-> "assistant", content |-> GREETING] >>

\* C11: the session, dialogue included, is one record per user: a step of a handler
\* of user A leaves chatting, initial_query and the dialogue of every other user B
\* unchanged, so the chat calls of B are sent B's own transcript and turns.
C11_SessionsIsolated ==
    [][ \A t \in TaskIds :
          tasks'[t] # tasks[t]
          => \A b \in Users \ {tasks'[t].u} :
                /\ Chatting(user_data'[b]) <=> Chatting(user_data[b])
                /\ Has(user_data'[b], "initial_query") <=> Has(user_data[b], "initial_query")
                /\ GetInitialQuery(user_data'[b]) = GetInitialQuery(user_data[b])
                /\ transcribed[b] => conversation_history' = conversation_history ]_vars

\* C12: for every event that downloads media to a temporary file (handle_audio and
\* handle_voice_query), when the handler has ended the file has been deleted only if
\* the processing succeeded: if the transcription or the chat call failed the file is
\* still on disk (after a successful processing it is gone unless os.remove failed).
C12_TempFileLeftOnFailure ==
    \A t \in TaskIds :
        ( /\ tasks[t].h \in {"handle_audio", "handle_voice_query"}
          /\ tasks[t].pc = "done" /\ tasks[t].file_path )
        => /\ ( tasks[t].stt_result = "failed" \/ tasks[t].chat_result = "failed" )
              => tasks[t].on_disk
           /\ ~tasks[t].on_disk
              => tasks[t].stt_result = "ok" /\ tasks[t].chat_result # "failed"

\* C13: no failure escapes an inbound-event handler: whichever external call fails,
\* handle_audio, handle_text, handle_voice_query and handle_unsupported_file end
\* normally, without raising.
C13_NoFailureEscapes ==
    \A t \in TaskIds :
        tasks[t].h \in {"handle_audio", "handle_text", "handle_voice_query",
                        "handle_unsupported_file"}
        => ~tasks[t].escaped

\* C14: whenever the transcription succeeds for an audio event received in
\* AWAITING_AUDIO, the handler ends with the session chatting and the pending buffer
\* cleared, also when deleting or sending a status notice around it fails.
C14_TranscribedAudioEntersChat ==
    \A t \in TaskIds :
        ( AudioTranscribed(tasks[t]) /\ tasks[t].pc = "done" )
        => /\ Chatting(user_data[tasks[t].u])
           /\ ~Has(user_data[tasks[t].u], "initial_query")

\* C15: for any unknown command token, unknown_command suggests at most 3 of the known
\* commands start, new, help, each with similarity at least 0.6, in order of
\* decreasing similarity; "hlep" gives ["help"] and "xyz123" gives [], and then the
\* notice is the pointer to /help alone.
C15_SuggestionsAboveCutoff ==
    \A t \in TaskIds :
        tasks[t].h = "unknown_command"
        => LET command == tasks[t].text
               matches == tasks[t].possible_matches
               known == {AVAILABLE_COMMANDS[i] : i \in DOMAIN AVAILABLE_COMMANDS}
           IN  /\ Len(matches) <= 3
               /\ \A k \in DOMAIN matches :
                     /\ matches[k] \in known
                     /\ 10 * ratio(matches[k], command).num >= 6 * ratio(matches[k], command).den
               /\ \A k \in DOMAIN matches : \A m \in DOMAIN matches :
                     k < m => /\ matches[k] # matches[m]
                              /\ ~RatioLess(ratio(matches[k], command),
                                            ratio(matches[m], command))
               /\ command = <<"h", "l", "e", "p">> => matches = << <<"h", "e", "l", "p">> >>
               /\ command = <<"x", "y", "z", "1", "2", "3">>
                     => /\ matches = <<>>
                        /\ tasks[t].suggestion_text = <<"unknown command", command, "use /help">>

\* C15 witness: a token with two suggestions of different similarity, and the two
\* tokens named, have been handled
C15_Witness ==
    \E t \in TaskIds :
        /\ tasks[t].h = "unknown_command" /\ tasks[t].pc = "done"
        /\ tasks[t].text = <<"n", "e", "w", "h", "e", "l", "p">>
        /\ tasks[t].possible_matches = << <<"h", "e", "l", "p">>, <<"n", "e", "w">> >>

\* C16: an unsupported-media event changes nothing of the session in either phase:
\* chatting, initial_query and the dialogue are what they were when it arrived; the
\* handler only sends a notice and records the reference of that notice.
C16_UnsupportedFileKeepsSession ==
    \A t \in TaskIds :
        tasks[t].h = "handle_unsupported_file"
        => LET d == user_data[tasks[t].u]
               d0 == tasks[t].ud0
           IN  /\ Chatting(d) <=> Chatting(d0)
               /\ Has(d, "initial_query") <=> Has(d0, "initial_query")
               /\ GetInitialQuery(d) = GetInitialQuery(d0)
               /\ conversation_history = tasks[t].hist0
               /\ queued[tasks[t].u] = tasks[t].q0
               /\ tasks[t].nchat = 0 /\ tasks[t].nstt = 0
               /\ \A k \in DOMAIN d0 : k # "unsupported_warning_msg_id" =>
                     Has(d, k) /\ d[k] = d0[k]
               /\ ( tasks[t].pc = "done" /\ ~tasks[t].escaped )
                     => Has(d, "unsupported_warning_msg_id")

\* C16 witness: the notice of an unsupported file was sent and recorded for a session
\* holding a dialogue and, in the other phase, for one holding queued text
C16_Witness ==
    \E t \in TaskIds :
        /\ tasks[t].h = "handle_unsupported_file" /\ tasks[t].pc = "done"
        /\ Has(user_data[tasks[t].u], "unsupported_warning_msg_id")
        /\ Has(tasks[t].ud0, "initial_query")
        /\ Len(tasks[t].hist0) >= 3

\* C17: for a chatting session each freestanding text triggers exactly one chat call,
\* whose query is that text alone; the text is never put in the pending buffer and
\* the session stays chatting, whether the chat call succeeds or fails.
C17_ChattingTextOneChat ==
    \A t \in TaskIds :
        ( tasks[t].h = "handle_text" /\ Chatting(tasks[t].ud0) )
        => /\ Chatting(user_data[tasks[t].u])
           /\ ~Has(user_data[tasks[t].u], "initial_query")
           /\ tasks[t].nchat <= 1
           /\ tasks[t].nchat = 1 => tasks[t].query = tasks[t].text
           /\ tasks[t].pc = "done" => tasks[t].nchat = 1

\* an audio or voice event of accepted format
AcceptedAudio(rec) ==
    /\ rec.h \in {"handle_audio", "handle_voice_query"}
    /\ Truthy(Extension(rec.mime))

\* C18: for every audio or voice event of accepted format, in whatever phase the
\* session is, the transcription runs exactly once and, when it succeeds, the dialogue
\* is (re)initialized to the three initial turns built from the new transcript.
C18_AudioReinitializesDialogue ==
    \A t \in TaskIds :
        AcceptedAudio(tasks[t])
        => /\ tasks[t].nstt <= 1
           /\ tasks[t].pc = "done" => tasks[t].nstt = 1
           /\ At(t, "handle_audio", "a_delete_status")
                 => conversation_history = InitialHistory(tasks[t].transcript)
           /\ At(t, "handle_voice_query", "v_processing")
                 => conversation_history = InitialHistory(tasks[t].text)

\* the string s holds the text x (one token of it is that text)
Mentions(s, x) == \E i \in DOMAIN s : <<s[i]>> = x

\* C19: no accepted text is lost to the race between an in-flight audio and an incoming
\* text of the same user: when handle_text runs at a suspension point of a captionless
\* handle_audio, then once both have ended the text is part of the query passed to
\* chat or is still in the pending buffer.
C19_RacingTextNotLost ==
    \A t1 \in TaskIds : \A t2 \in TaskIds :
        ( /\ tasks[t1].h = "handle_audio" /\ tasks[t1].pc = "done"
          /\ ~Truthy(tasks[t1].caption)
          /\ TextQueued(tasks[t2]) /\ tasks[t2].pc = "done"
          /\ tasks[t2].u = tasks[t1].u )
        => \/ tasks[t1].nchat >= 1 /\ Mentions(tasks[t1].query, tasks[t2].text)
           \/ Mentions(GetInitialQuery(user_data[tasks[t1].u]), tasks[t2].text)

\* C20: in every reachable state the dialogue after its three initial turns strictly
\* alternates USER, ASSISTANT, each ASSISTANT turn directly following the USER turn of
\* its own chat call; also after failed chat calls and with two chat calls in flight.
C20_TurnsAlternate ==
    /\ \A i \in 4..Len(conversation_history) :
          conversation_history[i].role = IF (i - 4) % 2 = 0 THEN "user" ELSE "assistant"
    /\ \A t \in TaskIds :
          ( tasks[t].chat_result = "ok" /\ Running(t) )
          => \E i \in 4..Len(conversation_history) - 1 :
                /\ conversation_history[i] = Turn("user", QUERY_PREFIX \o tasks[t].query)
                /\ conversation_history[i + 1] = Turn("assistant", tasks[t].response)

\* C21: chat is never called with an uninitialized dialogue: every call of chat, from
\* handle_text, handle_audio or handle_voice_query, is made after a transcription has
\* succeeded for that user, on a dialogue that starts with the SYSTEM turn and the
\* transcript context turn; a text received before that is queued, not dispatched.
C21_ChatOnInitializedDialogue ==
    \A t \in TaskIds :
        /\ tasks[t].nchat >= 1
           => /\ tasks[t].h \in {"handle_text", "handle_audio", "handle_voice_query"}
              /\ Len(tasks[t].chat0) >= 3
              /\ tasks[t].chat0[1] = Turn("system", SYSTEM_MESSAGE)
              /\ \E transcript \in Transcripts :
                    tasks[t].chat0[2] = Turn("user", CONTEXT_PREFIX \o transcript)
              /\ tasks[t].chat0[3] = Turn("assistant", GREETING)
              /\ Running(t) => transcribed[tasks[t].u]
              /\ tasks[t].h = "handle_audio" => tasks[t].stt_result = "ok"
              /\ tasks[t].h # "handle_audio" => Chatting(tasks[t].ud0)
        /\ TextQueued(tasks[t])
           => /\ tasks[t].nchat = 0
              /\ conversation_history = tasks[t].hist0

\* C21 witness: a text was queued while awaiting audio, and a later text of the
\* chatting session was sent to chat
C21_Witness ==
    \E t \in TaskIds :
        /\ tasks[t].h = "handle_text" /\ tasks[t].nchat = 1 /\ Running(t)
        /\ tasks[t].q0.valid /\ Len(tasks[t].q0.texts) = 0
        /\ Len(tasks[t].chat0) >= 3

\* C22: when the transcription of an audio event succeeds, a pending query or caption
\* is present and the chat call made for it fails, the handler still ends with the
\* session chatting, the pending buffer cleared and the dialogue initialized from the
\* transcript; the failed query is called once, not retried and not queued again.
C22_FailedFirstChatStillEntersChat ==
    \A t \in TaskIds :
        ( /\ AudioTranscribed(tasks[t]) /\ ~Chatting(tasks[t].ud0)
          /\ tasks[t].chat_result = "failed" )
        => /\ tasks[t].nchat = 1
           /\ Truthy(tasks[t].query)
           /\ Len(conversation_history) >= 3
           /\ SubSeq(conversation_history, 1, 3) = InitialHistory(tasks[t].transcript)
           /\ tasks[t].pc = "done"
              => /\ Chatting(user_data[tasks[t].u])
                 /\ ~Has(user_data[tasks[t].u], "initial_query")

====
